---- MODULE Spec2Model ----
(***************************************************************************)
(* Model of the context-visualizer aggregation API of iowarp/clio-core:    *)
(*   context_visualizer/api/system.py    GET /api/system                   *)
(*   context_visualizer/api/topology.py  GET /api/topology                 *)
(*   context_visualizer/api/workers.py   GET /api/workers                  *)
(*   context_visualizer/api/pools.py     GET /api/pools                    *)
(*   context_visualizer/api/config.py    GET /api/config, _load_config     *)
(* Each handler is one atomic action: it fetches from the Telemetry Source *)
(* (chimaera_client), reduces the per-container reports and returns.       *)
(* The Telemetry Source's snapshot grows as containers report; a behaviour *)
(* follows one of the two statistics the source serves, or the config      *)
(* files.                                                                  *)
(*                                                                         *)
(* JSON / Python values are tagged records:                                *)
(*   [t |-> "null"], [t |-> "int", n |-> 3], [t |-> "str", s |-> <<"c">>], *)
(*   [t |-> "list", xs |-> <<...>>], [t |-> "dict", d |-> [k |-> v, ...]]  *)
(* A Python str is a sequence of one-character strings.  A Python dict     *)
(* with string keys is a TLA+ function whose domain is its key set.        *)
(* An ordered mapping container-id -> report (the value a fetch returns)   *)
(* is a sequence of [cid, data] items with pairwise distinct cid, in the   *)
(* mapping's iteration order.                                              *)
(***************************************************************************)
EXTENDS Integers, Sequences, FiniteSets, TLC

VARIABLES
    statsKind,  \* what this behaviour follows: "system_stats", "worker_stats" or "config"
    stats,      \* the Telemetry Source's current snapshot of that statistic
    candidates, \* the three config candidates of _load_config, as the environment has them
    op,         \* the handler that ran last: "system", "topology", "workers", "pools",
                \* "config"; else "none"
    connected,  \* get_system's local `connected` as read from is_connected()
    fetched,    \* outcome of the handler's fetch: [ok, raw] or [ok, exc]
    nodes,      \* get_topology's working map after its first loop
    workers,    \* the flattened worker list of get_workers / get_system
    calls,      \* the chimaera_client calls the handler made, in order
    result,     \* what the handler returned, or the exception it raised
    reqs,       \* requests served concurrently: the frame of locals of each
    failures    \* some query served concurrently has ended on a failed fetch

vars == <<statsKind, stats, candidates, op, connected, fetched, nodes, workers, calls, result,
          reqs, failures>>

-----------------------------------------------------------------------------
(* Bounds of the model *)

MaxContainers == 2
MaxRecords == 2

-----------------------------------------------------------------------------
(* Python values *)

Null == [t |-> "null"]
IntV(n) == [t |-> "int", n |-> n]
StrV(s) == [t |-> "str", s |-> s]
ListV(xs) == [t |-> "list", xs |-> xs]
DictV(d) == [t |-> "dict", d |-> d]

EmptyDict == [k \in {} |-> Null]

IsList(v) == v.t = "list"
IsDict(v) == v.t = "dict"

\* d.get(k, default) on a dict d
Get(d, k, default) == IF k \in DOMAIN d THEN d[k] ELSE default

\* truthiness, as used by `x or y`
Falsy(v) ==
    \/ v.t = "null"
    \/ v.t = "int" /\ v.n = 0
    \/ v.t = "str" /\ v.s = <<>>
    \/ v.t = "list" /\ v.xs = <<>>
    \/ v.t = "dict" /\ DOMAIN v.d = {}

DigitChars == <<"0", "1", "2", "3", "4", "5", "6", "7", "8", "9">>
DigitSet == {DigitChars[i] : i \in 1..10}
DigitVal(c) == CHOOSE d \in 0..9 : DigitChars[d + 1] = c

RECURSIVE NatDigits(_)
NatDigits(n) ==
    IF n < 10 THEN <<DigitChars[n + 1]>>
    ELSE NatDigits(n \div 10) \o <<DigitChars[(n % 10) + 1]>>

\* str(v) for an int, a str or None
PyStr(v) ==
    CASE v.t = "int" -> IF v.n < 0 THEN <<"-">> \o NatDigits(-v.n) ELSE NatDigits(v.n)
      [] v.t = "str" -> v.s
      [] v.t = "null" -> <<"N", "o", "n", "e">>

RECURSIVE LStrip(_)
LStrip(s) == IF s # <<>> /\ Head(s) = " " THEN LStrip(Tail(s)) ELSE s

RECURSIVE RStrip(_)
RStrip(s) ==
    IF s # <<>> /\ s[Len(s)] = " " THEN RStrip(SubSeq(s, 1, Len(s) - 1)) ELSE s

RECURSIVE DigitsValue(_, _)
DigitsValue(s, acc) ==
    IF s = <<>> THEN acc ELSE DigitsValue(Tail(s), 10 * acc + DigitVal(Head(s)))

\* int(s) for a str s: surrounding blanks are stripped, one optional sign,
\* then at least one decimal digit; anything else is a ValueError
ParseInt(s) ==
    LET t == RStrip(LStrip(s))
        signed == t # <<>> /\ Head(t) \in {"+", "-"}
        body == IF signed THEN Tail(t) ELSE t
        valid == body # <<>> /\ \A i \in 1..Len(body) : body[i] \in DigitSet
    IN  IF ~valid THEN [ok |-> FALSE, exc |-> "ValueError"]
        ELSE [ok |-> TRUE,
              n |-> IF signed /\ Head(t) = "-" THEN -DigitsValue(body, 0)
                    ELSE DigitsValue(body, 0)]

\* int(v)
PyInt(v) ==
    CASE v.t = "int" -> [ok |-> TRUE, n |-> v.n]
      [] v.t = "str" -> ParseInt(v.s)
      [] OTHER -> [ok |-> FALSE, exc |-> "TypeError"]

\* a > b
PyGreater(a, b) ==
    IF a.t = "int" /\ b.t = "int" THEN [ok |-> TRUE, v |-> a.n > b.n]
    ELSE [ok |-> FALSE, exc |-> "TypeError"]

\* acc + v inside sum(), acc an int
PyAdd(acc, v) ==
    IF v.t = "int" THEN [ok |-> TRUE, n |-> acc + v.n]
    ELSE [ok |-> FALSE, exc |-> "TypeError"]

-----------------------------------------------------------------------------
(* Handler outcomes *)

Respond(status, body) == [kind |-> "return", status |-> status, body |-> body]
Raise(exc) == [kind |-> "raise", exc |-> exc]

NoResult == [kind |-> "none"]
NoFetch == [ok |-> FALSE, exc |-> "none"]

-----------------------------------------------------------------------------
(* Worker Aggregator: workers.py 17-37, system.py 35-46 *)

\* Mutant of WorkerRecordsOf: anything that is no list is appended
WorkerRecordsOfAppendAny(data) ==
    IF IsList(data) THEN data.xs ELSE <<data>>

\* Mutant of WorkerRecordsOf: only the first record of a list is kept
WorkerRecordsOfFirstOnly(data) ==
    IF IsList(data) THEN (IF data.xs = <<>> THEN <<>> ELSE <<Head(data.xs)>>)
    ELSE IF IsDict(data) THEN <<data>>
    ELSE <<>>

\* What one container's data adds to the worker list:
\*   if isinstance(data, list): workers.extend(data)
\*   elif isinstance(data, dict): workers.append(data)
WorkerRecordsOf(data) ==
    IF IsList(data) THEN data.xs
    ELSE IF IsDict(data) THEN <<data>>
    ELSE <<>>

\* for _cid, data in raw.items(): ...
RECURSIVE FlattenWorkers(_)
FlattenWorkers(raw) ==
    IF raw = <<>> THEN <<>>
    ELSE WorkerRecordsOf(Head(raw).data) \o FlattenWorkers(Tail(raw))

\* Mutant of WorkerField: the default of a missing field is 1
WorkerFieldDefaultOne(w, field) ==
    IF IsDict(w) THEN [ok |-> TRUE, v |-> Get(w.d, field, IntV(1))]
    ELSE [ok |-> FALSE, exc |-> "AttributeError"]

\* w.get(field, 0): an element that is no dict has no get()
WorkerField(w, field) ==
    IF IsDict(w) THEN [ok |-> TRUE, v |-> Get(w.d, field, IntV(0))]
    ELSE [ok |-> FALSE, exc |-> "AttributeError"]

\* sum(w.get(field, 0) for w in ws), started from acc
RECURSIVE SumFrom(_, _, _)
SumFrom(ws, field, acc) ==
    IF ws = <<>> THEN [ok |-> TRUE, n |-> acc]
    ELSE LET g == WorkerField(Head(ws), field) IN
         IF ~g.ok THEN g
         ELSE LET a == PyAdd(acc, g.v) IN
              IF ~a.ok THEN a ELSE SumFrom(Tail(ws), field, a.n)

SumField(ws, field) == SumFrom(ws, field, 0)

\* get_workers after a successful fetch (workers.py 17-37)
WorkersBody(ws) ==
    LET q == SumField(ws, "queued")
        b == SumField(ws, "blocked")
        p == SumField(ws, "processed")
    IN  IF ~q.ok THEN Raise(q.exc)
        ELSE IF ~b.ok THEN Raise(b.exc)
        ELSE IF ~p.ok THEN Raise(p.exc)
        ELSE Respond(200, [workers |-> ws,
                           summary |-> [count |-> Len(ws), queued |-> q.n,
                                        blocked |-> b.n, processed |-> p.n]])

\* get_workers when the fetch raised (workers.py 14-15)
WorkersFetchFailed(exc) == Respond(503, [error |-> exc])

\* get_workers (workers.py 11-37)
GetWorkersResult(f) ==
    IF ~f.ok THEN WorkersFetchFailed(f.exc)
    ELSE WorkersBody(FlattenWorkers(f.raw))

\* Mutant of SystemBody: the blocked total is left at the 0 the info dict
\* was created with
SystemBodyWithoutBlocked(ws) ==
    LET q == SumField(ws, "queued")
        b == SumField(ws, "blocked")
        p == SumField(ws, "processed")
    IN  IF ~q.ok THEN Raise(q.exc)
        ELSE IF ~b.ok THEN Raise(b.exc)
        ELSE IF ~p.ok THEN Raise(p.exc)
        ELSE Respond(200, [connected |-> TRUE, workers |-> Len(ws), queued |-> q.n,
                           blocked |-> 0, processed |-> p.n])

\* get_system after a successful fetch (system.py 35-48)
SystemBody(ws) ==
    LET q == SumField(ws, "queued")
        b == SumField(ws, "blocked")
        p == SumField(ws, "processed")
    IN  IF ~q.ok THEN Raise(q.exc)
        ELSE IF ~b.ok THEN Raise(b.exc)
        ELSE IF ~p.ok THEN Raise(p.exc)
        ELSE Respond(200, [connected |-> TRUE, workers |-> Len(ws), queued |-> q.n,
                           blocked |-> b.n, processed |-> p.n])

\* Mutant of SystemFetchFailed: the prefilled info dict is returned too
SystemFetchFailedPartial(wasConnected, exc) ==
    Respond(503, [connected |-> wasConnected, workers |-> 0, queued |-> 0,
                  blocked |-> 0, processed |-> 0, error |-> exc])

\* get_system when the fetch raised (system.py 22-33): the flag returned is
\* False on the not-connected branch and True on the connected branch
SystemFetchFailed(wasConnected, exc) ==
    IF ~wasConnected THEN Respond(503, [connected |-> FALSE, error |-> exc])
    ELSE Respond(503, [connected |-> TRUE, error |-> exc])

\* Mutant of GetSystemResult: line 42 is left out, the flag read before the
\* fetch is returned
GetSystemResultKeepsFlag(wasConnected, f) ==
    IF ~f.ok THEN SystemFetchFailed(wasConnected, f.exc)
    ELSE LET r == SystemBody(FlattenWorkers(f.raw)) IN
         IF r.kind = "return" THEN [r EXCEPT !.body.connected = wasConnected] ELSE r

\* Mutant of GetSystemResult: a client found not connected is answered 503
\* without looking at the fetch
GetSystemResultStaysDown(wasConnected, f) ==
    IF ~f.ok THEN SystemFetchFailed(wasConnected, f.exc)
    ELSE IF ~wasConnected THEN SystemFetchFailed(wasConnected, "not connected")
    ELSE SystemBody(FlattenWorkers(f.raw))

\* get_system (system.py 11-48)
GetSystemResult(wasConnected, f) ==
    IF ~f.ok THEN SystemFetchFailed(wasConnected, f.exc)
    ELSE SystemBody(FlattenWorkers(f.raw))

-----------------------------------------------------------------------------
(* Node Reconciler: topology.py 13-66 *)

\* socket.gethostname()
LocalHostname == StrV(<<"h", "0">>)

\* The entries of one container that reach the reconciliation:
\*   if not isinstance(entries, list): continue
\*   for entry in entries: if not isinstance(entry, dict): continue
RECURSIVE DictEntries(_, _)
DictEntries(cid, xs) ==
    IF xs = <<>> THEN <<>>
    ELSE (IF IsDict(Head(xs)) THEN <<[cid |-> cid, entry |-> Head(xs)]>> ELSE <<>>)
         \o DictEntries(cid, Tail(xs))

TopologyRecordsOf(cid, entries) ==
    IF ~IsList(entries) THEN <<>> ELSE DictEntries(cid, entries.xs)

\* for cid, entries in raw.items(): ...
RECURSIVE FlattenEntries(_)
FlattenEntries(raw) ==
    IF raw = <<>> THEN <<>>
    ELSE TopologyRecordsOf(Head(raw).cid, Head(raw).data) \o FlattenEntries(Tail(raw))

\* Mutant of NodeKey: the key of a record without node_id is marked as a
\* container identifier
NodeKeyTagged(cid, entry) ==
    LET nid == Get(entry.d, "node_id", Null)
    IN  IF nid = Null THEN <<"#">> \o PyStr(cid) ELSE PyStr(nid)

\* nid = entry.get("node_id"); if nid is None: nid = cid; nid_str = str(nid)
NodeKey(cid, entry) ==
    LET nid == Get(entry.d, "node_id", Null)
    IN  PyStr(IF nid = Null THEN cid ELSE nid)

\* Mutant of KeyIndex: no key is ever found in the working map
KeyIndexNotFound(map, key) == 0

\* nodes.get(nid_str): position of the key in the working map, 0 when absent
KeyIndex(map, key) ==
    IF \E i \in 1..Len(map) : map[i].key = key
    THEN CHOOSE i \in 1..Len(map) : map[i].key = key
    ELSE 0

\* Mutant of Fresher: an equal event_id replaces too
FresherOrEqual(entry, prev) ==
    LET g == PyGreater(Get(prev.d, "event_id", IntV(0)), Get(entry.d, "event_id", IntV(0)))
    IN  IF g.ok THEN [ok |-> TRUE, v |-> ~g.v] ELSE g

\* Mutant of Fresher: the record met last always replaces
FresherAlways(entry, prev) == [ok |-> TRUE, v |-> TRUE]

\* entry.get("event_id", 0) > prev.get("event_id", 0)
Fresher(entry, prev) ==
    PyGreater(Get(entry.d, "event_id", IntV(0)), Get(prev.d, "event_id", IntV(0)))

\* Mutant of ReconcileStep: a fresher record is merged into the stored one,
\* the stored record's other fields staying
ReconcileStepMerges(map, cid, entry) ==
    LET key == NodeKey(cid, entry)
        i == KeyIndex(map, key)
    IN  IF i = 0
        THEN [ok |-> TRUE, map |-> Append(map, [key |-> key, entry |-> entry])]
        ELSE LET g == Fresher(entry, map[i].entry) IN
             IF ~g.ok THEN g
             ELSE IF g.v
                  THEN [ok |-> TRUE,
                        map |-> [map EXCEPT ![i].entry = DictV(entry.d @@ map[i].entry.d)]]
                  ELSE [ok |-> TRUE, map |-> map]

\* Mutant of ReconcileStep: a fresher record without hostname inherits the
\* hostname of the record it replaces
ReconcileStepKeepsHostname(map, cid, entry) ==
    LET key == NodeKey(cid, entry)
        i == KeyIndex(map, key)
        old == map[i].entry
        new == IF "hostname" \in DOMAIN old.d /\ "hostname" \notin DOMAIN entry.d
               THEN DictV(entry.d @@ [k \in {"hostname"} |-> old.d["hostname"]])
               ELSE entry
    IN  IF i = 0
        THEN [ok |-> TRUE, map |-> Append(map, [key |-> key, entry |-> entry])]
        ELSE LET g == Fresher(entry, old) IN
             IF ~g.ok THEN g
             ELSE IF g.v
                  THEN [ok |-> TRUE, map |-> [map EXCEPT ![i].entry = new]]
                  ELSE [ok |-> TRUE, map |-> map]

\* One pass of the inner loop body (topology.py 29-37) on the working map
ReconcileStep(map, cid, entry) ==
    LET key == NodeKey(cid, entry)
        i == KeyIndex(map, key)
    IN  IF i = 0
        THEN [ok |-> TRUE, map |-> Append(map, [key |-> key, entry |-> entry])]
        ELSE LET g == Fresher(entry, map[i].entry) IN
             IF ~g.ok THEN g
             ELSE IF g.v
                  THEN [ok |-> TRUE, map |-> [map EXCEPT ![i].entry = entry]]
                  ELSE [ok |-> TRUE, map |-> map]

RECURSIVE Reconcile(_, _)
Reconcile(es, map) ==
    IF es = <<>> THEN [ok |-> TRUE, map |-> map]
    ELSE LET r == ReconcileStep(map, Head(es).cid, Head(es).entry) IN
         IF ~r.ok THEN r ELSE Reconcile(Tail(es), r.map)

\* Mutant of ExposedNodeId: the key of a record without node_id is not parsed
ExposedNodeIdNoParse(key, entry) ==
    LET raw_nid == Get(entry.d, "node_id", Null) IN
    IF raw_nid # Null THEN PyInt(raw_nid) ELSE [ok |-> TRUE, n |-> 0]

\* The numeric node_id of one map item (topology.py 45-53)
ExposedNodeId(key, entry) ==
    LET raw_nid == Get(entry.d, "node_id", Null) IN
    IF raw_nid # Null THEN PyInt(raw_nid)
    ELSE LET parsed == ParseInt(key) IN
         IF parsed.ok THEN parsed ELSE [ok |-> TRUE, n |-> 0]

\* Mutant of NodeStat: a record lacking one of the six fields gets null for it
NodeStatNullDefaults(node_id, entry) ==
    [node_id |-> node_id,
     hostname |-> IF Falsy(Get(entry.d, "hostname", Null)) THEN LocalHostname
                  ELSE Get(entry.d, "hostname", Null),
     ip_address |-> Get(entry.d, "ip_address", Null),
     cpu_usage_pct |-> Get(entry.d, "cpu_usage_pct", Null),
     ram_usage_pct |-> Get(entry.d, "ram_usage_pct", Null),
     gpu_count |-> Get(entry.d, "gpu_count", Null),
     gpu_usage_pct |-> Get(entry.d, "gpu_usage_pct", Null),
     hbm_usage_pct |-> Get(entry.d, "hbm_usage_pct", Null)]

\* Mutant of NodeStat: a missing hostname is reported as the empty string
NodeStatEmptyHostname(node_id, entry) ==
    [node_id |-> node_id,
     hostname |-> Get(entry.d, "hostname", StrV(<<>>)),
     ip_address |-> Get(entry.d, "ip_address", StrV(<<>>)),
     cpu_usage_pct |-> Get(entry.d, "cpu_usage_pct", IntV(0)),
     ram_usage_pct |-> Get(entry.d, "ram_usage_pct", IntV(0)),
     gpu_count |-> Get(entry.d, "gpu_count", IntV(0)),
     gpu_usage_pct |-> Get(entry.d, "gpu_usage_pct", IntV(0)),
     hbm_usage_pct |-> Get(entry.d, "hbm_usage_pct", IntV(0))]

\* Mutant of NodeStat: the record's event_id is reported as well
NodeStatWithEventId(node_id, entry) ==
    [node_id |-> node_id,
     hostname |-> IF Falsy(Get(entry.d, "hostname", Null)) THEN LocalHostname
                  ELSE Get(entry.d, "hostname", Null),
     ip_address |-> Get(entry.d, "ip_address", StrV(<<>>)),
     cpu_usage_pct |-> Get(entry.d, "cpu_usage_pct", IntV(0)),
     ram_usage_pct |-> Get(entry.d, "ram_usage_pct", IntV(0)),
     gpu_count |-> Get(entry.d, "gpu_count", IntV(0)),
     gpu_usage_pct |-> Get(entry.d, "gpu_usage_pct", IntV(0)),
     hbm_usage_pct |-> Get(entry.d, "hbm_usage_pct", IntV(0)),
     event_id |-> Get(entry.d, "event_id", IntV(0))]

\* The dict appended to result (topology.py 55-64)
NodeStat(node_id, entry) ==
    [node_id |-> node_id,
     hostname |-> IF Falsy(Get(entry.d, "hostname", Null)) THEN LocalHostname
                  ELSE Get(entry.d, "hostname", Null),
     ip_address |-> Get(entry.d, "ip_address", StrV(<<>>)),
     cpu_usage_pct |-> Get(entry.d, "cpu_usage_pct", IntV(0)),
     ram_usage_pct |-> Get(entry.d, "ram_usage_pct", IntV(0)),
     gpu_count |-> Get(entry.d, "gpu_count", IntV(0)),
     gpu_usage_pct |-> Get(entry.d, "gpu_usage_pct", IntV(0)),
     hbm_usage_pct |-> Get(entry.d, "hbm_usage_pct", IntV(0))]

\* for nid_str, entry in nodes.items(): ... result.append(...)
RECURSIVE BuildResult(_, _)
BuildResult(map, acc) ==
    IF map = <<>> THEN [ok |-> TRUE, result |-> acc]
    ELSE LET id == ExposedNodeId(Head(map).key, Head(map).entry) IN
         IF ~id.ok THEN id
         ELSE BuildResult(Tail(map), Append(acc, NodeStat(id.n, Head(map).entry)))

\* Mutant of TopologyFetchFailed: the failure is answered as an empty success
TopologyFetchFailedAsEmpty(exc) == Respond(200, [nodes |-> <<>>])

\* get_topology when the fetch raised (topology.py 16-17)
TopologyFetchFailed(exc) == Respond(503, [error |-> exc])

\* The working map get_topology holds when its first loop ends; empty when
\* the handler left before that
TopologyNodes(f) ==
    IF ~f.ok THEN <<>>
    ELSE LET r == Reconcile(FlattenEntries(f.raw), <<>>) IN
         IF r.ok THEN r.map ELSE <<>>

\* get_topology (topology.py 13-66)
GetTopologyResult(f) ==
    IF ~f.ok THEN TopologyFetchFailed(f.exc)
    ELSE LET r == Reconcile(FlattenEntries(f.raw), <<>>) IN
         IF ~r.ok THEN Raise(r.exc)
         ELSE LET b == BuildResult(r.map, <<>>) IN
              IF ~b.ok THEN Raise(b.exc)
              ELSE Respond(200, [nodes |-> b.result])

-----------------------------------------------------------------------------
(* Calls made to chimaera_client *)

\* get_system: is_connected(), then get_worker_stats() on line 25 or on line 31
\* Mutant of SystemCalls: a failed fetch on the not-connected branch falls
\* through to the fetch of the connected branch
SystemCallsRetry(wasConnected, f) ==
    <<"is_connected", "get_worker_stats">>
    \o (IF ~wasConnected /\ ~f.ok THEN <<"get_worker_stats">> ELSE <<>>)

SystemCalls(wasConnected, f) ==
    <<"is_connected">>
    \o (IF ~wasConnected THEN <<"get_worker_stats">> ELSE <<"get_worker_stats">>)

\* get_topology: get_system_stats_all() on line 15
TopologyCalls(f) == <<"get_system_stats_all">>

\* get_workers: get_worker_stats() on line 13
WorkersCalls(f) == <<"get_worker_stats">>

-----------------------------------------------------------------------------
(* Config Source: config.py 11-42, pools.py 10-26 *)

\* A candidate is [path, isfile, load]: the path string or None, what
\* os.path.isfile(path) answers, and what open + yaml.safe_load give

\* Mutant of LoadConfig: the last candidate that names a file is loaded
LoadConfigLastWins(cands) ==
    LET F == {i \in 1..Len(cands) : ~Falsy(cands[i].path) /\ cands[i].isfile} IN
    IF F = {} THEN [ok |-> TRUE, v |-> Null]
    ELSE cands[CHOOSE i \in F : \A j \in F : j <= i].load

\* Mutant of LoadConfig: a file that parses to None is passed over
LoadConfigSkipsEmpty(cands) ==
    LET F == {i \in 1..Len(cands) :
                /\ ~Falsy(cands[i].path) /\ cands[i].isfile
                /\ cands[i].load # [ok |-> TRUE, v |-> Null]} IN
    IF F = {} THEN [ok |-> TRUE, v |-> Null]
    ELSE cands[CHOOSE i \in F : \A j \in F : i <= j].load

\* for path in candidates: if path and os.path.isfile(path): return yaml.safe_load(fh)
\* return None
RECURSIVE LoadConfig(_)
LoadConfig(cands) ==
    IF cands = <<>> THEN [ok |-> TRUE, v |-> Null]
    ELSE IF ~Falsy(Head(cands).path) /\ Head(cands).isfile THEN Head(cands).load
    ELSE LoadConfig(Tail(cands))

\* cfg.get("compose", []) or []
ComposeOf(cfg) ==
    LET c == Get(cfg.d, "compose", ListV(<<>>)) IN IF Falsy(c) THEN ListV(<<>>) ELSE c

\* Mutant of PoolDescriptor: an absent field is reported as null
PoolDescriptorNullDefault(entry) ==
    [mod_name |-> Get(entry.d, "mod_name", Null),
     pool_name |-> Get(entry.d, "pool_name", Null),
     pool_id |-> Get(entry.d, "pool_id", Null),
     pool_query |-> Get(entry.d, "pool_query", Null)]

\* The dict appended to pools (pools.py 19-24)
PoolDescriptor(entry) ==
    [mod_name |-> Get(entry.d, "mod_name", StrV(<<>>)),
     pool_name |-> Get(entry.d, "pool_name", StrV(<<>>)),
     pool_id |-> Get(entry.d, "pool_id", StrV(<<>>)),
     pool_query |-> Get(entry.d, "pool_query", StrV(<<>>))]

\* for entry in compose: pools.append({...}); an entry that is no dict has no get()
RECURSIVE BuildPools(_, _)
BuildPools(entries, acc) ==
    IF entries = <<>> THEN [ok |-> TRUE, pools |-> acc]
    ELSE IF ~IsDict(Head(entries)) THEN [ok |-> FALSE, exc |-> "AttributeError"]
    ELSE BuildPools(Tail(entries), Append(acc, PoolDescriptor(Head(entries))))

\* get_pools when _load_config returned None (pools.py 13-14)
PoolsNotFound == Respond(404, [error |-> "config not found"])

\* get_pools on a loaded config (pools.py 16-26); a cfg that is no dict has
\* no get(), an int compose cannot be iterated, the items of a str or dict
\* compose are strings
PoolsBody(cfg) ==
    IF ~IsDict(cfg) THEN Raise("AttributeError")
    ELSE LET compose == ComposeOf(cfg) IN
         IF compose.t = "int" THEN Raise("TypeError")
         ELSE IF ~IsList(compose) THEN Raise("AttributeError")
         ELSE LET b == BuildPools(compose.xs, <<>>) IN
              IF ~b.ok THEN Raise(b.exc) ELSE Respond(200, [pools |-> b.pools])

\* get_pools once _load_config has returned or raised (pools.py 12-26)
PoolsResult(l) ==
    IF ~l.ok THEN Raise(l.exc)
    ELSE IF l.v = Null THEN PoolsNotFound
    ELSE PoolsBody(l.v)

\* get_pools (pools.py 10-26)
GetPoolsResult(cands) == PoolsResult(LoadConfig(cands))

\* get_config (config.py 33-42)
GetConfigResult(cands) ==
    LET l == LoadConfig(cands) IN
    IF ~l.ok THEN Raise(l.exc)
    ELSE IF l.v = Null
    THEN Respond(404, [error |-> "no config file found",
                       searched |-> <<"CHI_SERVER_CONF", "WRP_RUNTIME_CONF",
                                      "~/.chimaera/chimaera.yaml">>])
    ELSE Respond(200, [config |-> l.v])

-----------------------------------------------------------------------------
(* What the Telemetry Source may return *)

ContainerIds == {StrV(<<"1">>), StrV(<<"2">>), StrV(<<"c">>)}

\* system_stats entries, and an element that is no record
NodeElements ==
    { DictV([node_id |-> IntV(1), event_id |-> IntV(5), cpu_usage_pct |-> IntV(10)]),
      DictV([node_id |-> IntV(1), event_id |-> IntV(7), cpu_usage_pct |-> IntV(20)]),
      DictV([cpu_usage_pct |-> IntV(30), hostname |-> StrV(<<"n">>)]),
      DictV([node_id |-> StrV(<<"x">>), event_id |-> IntV(7)]),
      IntV(9) }

\* worker records, and an element that is no record
WorkerElements ==
    { DictV([queued |-> IntV(2), processed |-> IntV(5)]),
      DictV([blocked |-> IntV(1)]),
      IntV(9) }

\* Reports that are neither a list nor a dict
OtherShapes == {Null, StrV(<<"x">>)}

\* What a container may hold when it first reports
FirstReports(elems) ==
    OtherShapes \cup {e \in elems : IsDict(e)} \cup {ListV(<<>>)}

ElementsOf(kind) == IF kind = "system_stats" THEN NodeElements ELSE WorkerElements

ListLen(r) == IF IsList(r) THEN Len(r.xs) ELSE 0

RECURSIVE TotalListLen(_)
TotalListLen(raw) ==
    IF raw = <<>> THEN 0 ELSE ListLen(Head(raw).data) + TotalListLen(Tail(raw))

CidsOf(raw) == {raw[i].cid : i \in 1..Len(raw)}

FetchError == "runtime unreachable"

\* Outcomes of chimaera_client.get_system_stats_all() / get_worker_stats()
\* on the snapshot raw: the call raises, or returns the mapping
FetchOutcomes(raw) == {[ok |-> FALSE, exc |-> FetchError], [ok |-> TRUE, raw |-> raw]}

-----------------------------------------------------------------------------
(* What the Config Source may hold *)

\* compose entries: a full descriptor and one with three fields absent
PoolEntries ==
    { DictV([mod_name |-> StrV(<<"m">>), pool_name |-> StrV(<<"p">>),
             pool_id |-> StrV(<<"1">>), pool_query |-> StrV(<<"q">>)]),
      DictV([mod_name |-> StrV(<<"b">>)]) }

ComposeLists == UNION {[1..n -> PoolEntries] : n \in 0..MaxRecords}

\* What yaml.safe_load may give: None for an empty file, a scalar, a mapping
\* without compose, with a null compose, with a compose list
ConfigContents ==
    {Null, StrV(<<"x">>), DictV([runtime |-> IntV(4)]), DictV([compose |-> Null])}
    \cup {DictV([compose |-> ListV(xs)]) : xs \in ComposeLists}

\* Outcomes of open(path) + yaml.safe_load(fh)
LoadOutcomes ==
    {[ok |-> FALSE, exc |-> "YAMLError"]} \cup {[ok |-> TRUE, v |-> c] : c \in ConfigContents}

NoLoad == [ok |-> FALSE, exc |-> "none"]

\* A path that names a file, and one that names none
FileCandidates(path) == {[path |-> StrV(path), isfile |-> TRUE, load |-> l] : l \in LoadOutcomes}
MissingCandidate(path) == [path |-> StrV(path), isfile |-> FALSE, load |-> NoLoad]

\* os.environ.get(name): unset, set to "", set to a path
EnvCandidates(path) ==
    {[path |-> Null, isfile |-> FALSE, load |-> NoLoad],
     [path |-> StrV(<<>>), isfile |-> FALSE, load |-> NoLoad],
     MissingCandidate(path)}
    \cup FileCandidates(path)

\* str(Path.home() / ".chimaera" / "chimaera.yaml")
HomeCandidates == {MissingCandidate(<<"h">>)} \cup FileCandidates(<<"h">>)

CandidateLists ==
    {<<a, b, c>> : a \in EnvCandidates(<<"a">>), b \in EnvCandidates(<<"b">>), c \in HomeCandidates}

\* The candidates in a behaviour that follows the Telemetry Source
NoCandidates ==
    <<[path |-> Null, isfile |-> FALSE, load |-> NoLoad],
      [path |-> Null, isfile |-> FALSE, load |-> NoLoad],
      MissingCandidate(<<"h">>)>>

-----------------------------------------------------------------------------
(* Frames of the requests served concurrently *)

\* The server runs each request in a call of its own: the handler's locals
\* (connected, raw, workers, nodes, cfg) live in that call's frame
Slots == {1, 2}

IdleFrame ==
    [pc |-> "idle", op |-> "none", connected |-> FALSE, fetched |-> NoFetch,
     after |-> FALSE, result |-> NoResult]

-----------------------------------------------------------------------------
(* The state machine *)

Init ==
    /\ statsKind \in {"system_stats", "worker_stats", "config"}
    /\ stats = <<>>
    /\ candidates \in (IF statsKind = "config" THEN CandidateLists ELSE {NoCandidates})
    /\ op = "none"
    /\ connected = FALSE
    /\ fetched = NoFetch
    /\ nodes = <<>>
    /\ workers = <<>>
    /\ calls = <<>>
    /\ result = NoResult
    /\ reqs = [s \in Slots |-> IdleFrame]
    /\ failures = FALSE

\* Telemetry Source: one more container has data in the snapshot
ContainerReports ==
    /\ op = "none"
    /\ statsKind # "config"
    /\ Len(stats) < MaxContainers
    /\ \E c \in ContainerIds \ CidsOf(stats), r \in FirstReports(ElementsOf(statsKind)) :
        stats' = Append(stats, [cid |-> c, data |-> r])
    /\ UNCHANGED <<statsKind, candidates, op, connected, fetched, nodes, workers, calls, result>>
    /\ UNCHANGED <<reqs, failures>>

\* Telemetry Source: the newest container's list has one more element
ElementReported ==
    /\ op = "none"
    /\ stats # <<>>
    /\ IsList(stats[Len(stats)].data)
    /\ TotalListLen(stats) < MaxRecords
    /\ \E e \in ElementsOf(statsKind) :
        stats' = [stats EXCEPT ![Len(stats)].data.xs = Append(@, e)]
    /\ UNCHANGED <<statsKind, candidates, op, connected, fetched, nodes, workers, calls, result>>
    /\ UNCHANGED <<reqs, failures>>

\* GET /api/system
GetSystem ==
    /\ op = "none"
    /\ statsKind = "worker_stats"
    /\ \E c \in BOOLEAN, f \in FetchOutcomes(stats) :
        /\ connected' = c
        /\ fetched' = f
        /\ workers' = (IF f.ok THEN FlattenWorkers(f.raw) ELSE <<>>)
        /\ calls' = SystemCalls(c, f)
        /\ result' = GetSystemResult(c, f)
    /\ op' = "system"
    /\ UNCHANGED <<statsKind, stats, candidates, nodes>>
    /\ UNCHANGED <<reqs, failures>>

\* GET /api/topology
GetTopology ==
    /\ op = "none"
    /\ statsKind = "system_stats"
    /\ \E f \in FetchOutcomes(stats) :
        /\ fetched' = f
        /\ nodes' = TopologyNodes(f)
        /\ calls' = TopologyCalls(f)
        /\ result' = GetTopologyResult(f)
    /\ op' = "topology"
    /\ UNCHANGED <<statsKind, stats, candidates, connected, workers>>
    /\ UNCHANGED <<reqs, failures>>

\* GET /api/workers
GetWorkers ==
    /\ op = "none"
    /\ statsKind = "worker_stats"
    /\ \E f \in FetchOutcomes(stats) :
        /\ fetched' = f
        /\ workers' = (IF f.ok THEN FlattenWorkers(f.raw) ELSE <<>>)
        /\ calls' = WorkersCalls(f)
        /\ result' = GetWorkersResult(f)
    /\ op' = "workers"
    /\ UNCHANGED <<statsKind, stats, candidates, connected, nodes>>
    /\ UNCHANGED <<reqs, failures>>

\* GET /api/pools
GetPools ==
    /\ op = "none"
    /\ statsKind = "config"
    /\ result' = GetPoolsResult(candidates)
    /\ op' = "pools"
    /\ UNCHANGED <<statsKind, stats, candidates, connected, fetched, nodes, workers, calls>>
    /\ UNCHANGED <<reqs, failures>>

\* GET /api/config
GetConfig ==
    /\ op = "none"
    /\ statsKind = "config"
    /\ result' = GetConfigResult(candidates)
    /\ op' = "config"
    /\ UNCHANGED <<statsKind, stats, candidates, connected, fetched, nodes, workers, calls>>
    /\ UNCHANGED <<reqs, failures>>

\* The response has been sent; the handler's locals are gone
Return ==
    /\ op # "none"
    /\ op' = "none"
    /\ connected' = FALSE
    /\ fetched' = NoFetch
    /\ nodes' = <<>>
    /\ workers' = <<>>
    /\ calls' = <<>>
    /\ result' = NoResult
    /\ UNCHANGED <<statsKind, stats, candidates>>
    /\ UNCHANGED <<reqs, failures>>

Next ==
    \/ ContainerReports
    \/ ElementReported
    \/ GetSystem
    \/ GetTopology
    \/ GetWorkers
    \/ GetPools
    \/ GetConfig
    \/ Return

Spec == Init /\ [][Next]_vars

-----------------------------------------------------------------------------
(* Node reports in lists: the inputs of the reconciliation *)

\* Records that tie with, or are exposed under the same node_id as, the
\* records of NodeElements: node 2 without event_id, node 0
MoreNodeElements ==
    { DictV([node_id |-> IntV(2), cpu_usage_pct |-> IntV(40)]),
      DictV([node_id |-> IntV(0), event_id |-> IntV(5)]) }

\* The records whose node_id, when present, is an integer
ReconcileElements ==
    {e \in NodeElements : IsDict(e) /\ Get(e.d, "node_id", Null).t # "str"}
    \cup MoreNodeElements

ReconcileInit ==
    /\ statsKind = "system_stats"
    /\ stats = <<>>
    /\ candidates = NoCandidates
    /\ op = "none"
    /\ connected = FALSE
    /\ fetched = NoFetch
    /\ nodes = <<>>
    /\ workers = <<>>
    /\ calls = <<>>
    /\ result = NoResult
    /\ reqs = [s \in Slots |-> IdleFrame]
    /\ failures = FALSE

\* Telemetry Source: one more container reports a list, still empty
ListReported ==
    /\ op = "none"
    /\ Len(stats) < MaxContainers
    /\ \E c \in ContainerIds \ CidsOf(stats) :
        stats' = Append(stats, [cid |-> c, data |-> ListV(<<>>)])
    /\ UNCHANGED <<statsKind, candidates, op, connected, fetched, nodes, workers, calls, result>>
    /\ UNCHANGED <<reqs, failures>>

\* Telemetry Source: the newest container's list has one more record
RecordReported ==
    /\ op = "none"
    /\ stats # <<>>
    /\ TotalListLen(stats) < MaxRecords
    /\ \E e \in ReconcileElements :
        stats' = [stats EXCEPT ![Len(stats)].data.xs = Append(@, e)]
    /\ UNCHANGED <<statsKind, candidates, op, connected, fetched, nodes, workers, calls, result>>
    /\ UNCHANGED <<reqs, failures>>

ReconcileNext ==
    \/ ListReported
    \/ RecordReported
    \/ GetTopology
    \/ Return

ReconcileSpec == ReconcileInit /\ [][ReconcileNext]_vars

-----------------------------------------------------------------------------
(* Requests served concurrently *)

\* Mutant of Frame: the handlers keep their locals in one module-level place
FrameShared(rs, s) == rs[1]

\* The locals request s works on
Frame(rs, s) == rs[s]

\* What the handler of frame fr answers from its locals
HandlerResult(fr) ==
    CASE fr.op = "system" -> GetSystemResult(fr.connected, fr.fetched)
      [] fr.op = "topology" -> GetTopologyResult(fr.fetched)
      [] fr.op = "workers" -> GetWorkersResult(fr.fetched)
      [] fr.op = "pools" -> PoolsResult(fr.fetched)
      [] OTHER -> NoResult

\* Snapshots the source goes through while requests are in flight
ConcSnapshots(kind) ==
    {<<>>}
    \cup {<<[cid |-> StrV(<<"1">>), data |-> ListV(<<e>>)]>> : e \in ElementsOf(kind)}
    \cup {<<[cid |-> StrV(<<"2">>), data |-> ListV(<<e>>)],
            [cid |-> StrV(<<"1">>), data |-> ListV(<<e>>)]>> : e \in ElementsOf(kind)}

ConcInit ==
    /\ statsKind \in {"system_stats", "worker_stats", "config"}
    /\ stats \in (IF statsKind = "config" THEN {<<>>} ELSE ConcSnapshots(statsKind))
    /\ candidates \in (IF statsKind = "config" THEN CandidateLists ELSE {NoCandidates})
    /\ op = "none"
    /\ connected = FALSE
    /\ fetched = NoFetch
    /\ nodes = <<>>
    /\ workers = <<>>
    /\ calls = <<>>
    /\ result = NoResult
    /\ reqs = [s \in Slots |-> IdleFrame]
    /\ failures = FALSE

\* Telemetry Source: the snapshot is replaced
SnapshotChanges ==
    /\ statsKind # "config"
    /\ stats' \in ConcSnapshots(statsKind) \ {stats}
    /\ UNCHANGED <<statsKind, candidates, op, connected, fetched, nodes, workers, calls, result>>
    /\ UNCHANGED <<reqs, failures>>

\* Request s has read its input: fetched is what the fetch (for GetPools:
\* _load_config) gave it
Begun(s, o, c, f) ==
    /\ reqs[s].pc = "idle"
    /\ reqs' = [reqs EXCEPT ![s] = [pc |-> "fetched", op |-> o, connected |-> c,
                                    fetched |-> f, after |-> failures,
                                    result |-> NoResult]]
    /\ UNCHANGED <<statsKind, stats, candidates, op, connected, fetched, nodes, workers, calls,
                   result, failures>>

\* GET /api/system up to the return of its fetch (system.py 12-33)
BeginSystem(s) ==
    /\ statsKind = "worker_stats"
    /\ \E c \in BOOLEAN, f \in FetchOutcomes(stats) : Begun(s, "system", c, f)

\* GET /api/topology up to the return of its fetch (topology.py 14-17)
BeginTopology(s) ==
    /\ statsKind = "system_stats"
    /\ \E f \in FetchOutcomes(stats) : Begun(s, "topology", FALSE, f)

\* GET /api/workers up to the return of its fetch (workers.py 12-15)
BeginWorkers(s) ==
    /\ statsKind = "worker_stats"
    /\ \E f \in FetchOutcomes(stats) : Begun(s, "workers", FALSE, f)

\* GET /api/pools up to the return of _load_config (pools.py 12)
BeginPools(s) ==
    /\ statsKind = "config"
    /\ Begun(s, "pools", FALSE, LoadConfig(candidates))

\* The rest of the handler of request s, on its locals
Finish(s) ==
    /\ reqs[s].pc = "fetched"
    /\ reqs' = [reqs EXCEPT ![s].pc = "done", ![s].result = HandlerResult(Frame(reqs, s))]
    /\ failures' = (failures \/ (reqs[s].op # "pools" /\ ~reqs[s].fetched.ok))
    /\ UNCHANGED <<statsKind, stats, candidates, op, connected, fetched, nodes, workers, calls,
                   result>>

\* The response of request s has been sent
Responded(s) ==
    /\ reqs[s].pc = "done"
    /\ reqs' = [reqs EXCEPT ![s] = IdleFrame]
    /\ UNCHANGED <<statsKind, stats, candidates, op, connected, fetched, nodes, workers, calls,
                   result, failures>>

ConcNext ==
    \/ SnapshotChanges
    \/ \E s \in Slots : BeginSystem(s)
    \/ \E s \in Slots : BeginTopology(s)
    \/ \E s \in Slots : BeginWorkers(s)
    \/ \E s \in Slots : BeginPools(s)
    \/ \E s \in Slots : Finish(s)
    \/ \E s \in Slots : Responded(s)

ConcSpec == ConcInit /\ [][ConcNext]_vars

-----------------------------------------------------------------------------
(* Vocabulary of the properties *)

Succeeded(r) == r.kind = "return" /\ r.status = 200
FetchReturned == op # "none" /\ fetched.ok
FetchRaised == op # "none" /\ ~fetched.ok

\* What handler o answers to the mapping raw
ResultOn(o, c, raw) ==
    CASE o = "system" -> GetSystemResult(c, [ok |-> TRUE, raw |-> raw])
      [] o = "topology" -> GetTopologyResult([ok |-> TRUE, raw |-> raw])
      [] o = "workers" -> GetWorkersResult([ok |-> TRUE, raw |-> raw])

\* The records a mapping holds inside lists
ListedRecords(raw) ==
    UNION { {[cid |-> raw[i].cid, entry |-> raw[i].data.xs[k]] :
                k \in {m \in 1..Len(raw[i].data.xs) : IsDict(raw[i].data.xs[m])}} :
            i \in {j \in 1..Len(raw) : IsList(raw[j].data)} }

\* The records of a mapping as the Report Normalizer defines them: a list
\* gives its records, a single record gives itself, any other shape nothing
NormalizedRecords(raw) ==
    {[cid |-> raw[i].cid, entry |-> raw[i].data] : i \in {j \in 1..Len(raw) : IsDict(raw[j].data)}}
    \cup ListedRecords(raw)

EventIdOf(entry) == IF "event_id" \in DOMAIN entry.d THEN entry.d["event_id"].n ELSE 0

RECURSIVE SeqSum(_)
SeqSum(xs) == IF xs = <<>> THEN 0 ELSE Head(xs) + SeqSum(Tail(xs))

FieldOrZero(w, field) == IF field \in DOMAIN w.d THEN w.d[field].n ELSE 0
TotalOf(ws, field) == SeqSum([i \in 1..Len(ws) |-> FieldOrZero(ws[i], field)])

RemoveAt(xs, i) == SubSeq(xs, 1, i - 1) \o SubSeq(xs, i + 1, Len(xs))

-----------------------------------------------------------------------------
(* C1 *)

\* C1: for every mapping given to GetTopology the result holds one NodeStat
\* per key of the working map, the keys are pairwise distinct, and the
\* NodeStat of each key is built from a record whose event_id (0 when
\* missing) is the maximum over all records of the input that derive that key.
C1_SurvivorHasMaxEventId ==
    (op = "topology" /\ fetched.ok /\ Succeeded(result)) =>
        /\ Len(result.body.nodes) = Len(nodes)
        /\ \A i, j \in 1..Len(nodes) : nodes[i].key = nodes[j].key => i = j
        /\ \A i \in 1..Len(nodes) :
            /\ result.body.nodes[i] = NodeStat(result.body.nodes[i].node_id, nodes[i].entry)
            /\ \A r \in NormalizedRecords(fetched.raw) :
                NodeKey(r.cid, r.entry) = nodes[i].key
                    => EventIdOf(r.entry) <= EventIdOf(nodes[i].entry)

-----------------------------------------------------------------------------
(* C2 *)

\* C2: whenever GetWorkers or GetSystemOverview returns totals, queued,
\* blocked and processed each equal the sum of that field over every record
\* of the flattened worker list, a record lacking the field counting 0, and
\* the count is the length of that list.
C2_TotalsAreSums ==
    /\ (op = "workers" /\ Succeeded(result)) =>
        /\ result.body.summary.count = Len(workers)
        /\ result.body.summary.queued = TotalOf(workers, "queued")
        /\ result.body.summary.blocked = TotalOf(workers, "blocked")
        /\ result.body.summary.processed = TotalOf(workers, "processed")
    /\ (op = "system" /\ Succeeded(result)) =>
        /\ result.body.workers = Len(workers)
        /\ result.body.queued = TotalOf(workers, "queued")
        /\ result.body.blocked = TotalOf(workers, "blocked")
        /\ result.body.processed = TotalOf(workers, "processed")

\* The spec's example: records {queued 2, processed 5} and {blocked 1}
\* reported in one list, answered by GetWorkers with 2, 1, 5 and count 2
C2_Witness ==
    /\ op = "workers"
    /\ Succeeded(result)
    /\ workers = << DictV([queued |-> IntV(2), processed |-> IntV(5)]),
                    DictV([blocked |-> IntV(1)]) >>
    /\ result.body.summary = [count |-> 2, queued |-> 2, blocked |-> 1, processed |-> 5]

-----------------------------------------------------------------------------
(* C3 *)

\* C3: when the fetch fails, GetTopology and GetWorkers return status 503
\* with an error and without a nodes, workers or summary field; the failure
\* is never answered with a success.
C3_FetchFailureIsExplicit ==
    (op \in {"topology", "workers"} /\ ~fetched.ok) =>
        /\ result.kind = "return"
        /\ result.status = 503
        /\ "error" \in DOMAIN result.body
        /\ DOMAIN result.body \cap {"nodes", "workers", "summary"} = {}

\* A failed fetch of GetTopology while the source holds node records
C3_Witness ==
    /\ op = "topology"
    /\ ~fetched.ok
    /\ \E i \in 1..Len(stats) : IsList(stats[i].data) /\ stats[i].data.xs # <<>>
    /\ result.status = 503

-----------------------------------------------------------------------------
(* C4 *)

\* C4 as stated: whenever the worker-stats fetch fails during
\* GetSystemOverview, whatever the connection state before the call, the
\* result has connected = false with an error and no count or totals.
C4_FailureReportsDisconnected ==
    (op = "system" /\ ~fetched.ok) =>
        /\ result.kind = "return"
        /\ result.body.connected = FALSE
        /\ "error" \in DOMAIN result.body
        /\ DOMAIN result.body \cap {"workers", "queued", "blocked", "processed"} = {}

\* C4 amended: whenever the worker-stats fetch fails during
\* GetSystemOverview the result is a 503 with an error and no count or
\* totals, and its connected flag is the connection state read before the
\* call: false if the client was not connected, true if it was.
C4_FailureReportsPriorState ==
    (op = "system" /\ ~fetched.ok) =>
        /\ result.kind = "return"
        /\ result.status = 503
        /\ result.body.connected = connected
        /\ "error" \in DOMAIN result.body
        /\ DOMAIN result.body \cap {"workers", "queued", "blocked", "processed"} = {}

\* A failed fetch on a client that was connected before the call
C4_Witness ==
    /\ op = "system"
    /\ ~fetched.ok
    /\ connected = TRUE
    /\ result.body.connected = TRUE
    /\ result.status = 503

-----------------------------------------------------------------------------
(* C5 *)

\* The mapping raw with every single-record report put inside a list
WrapSingles(raw) ==
    [i \in 1..Len(raw) |->
        IF IsDict(raw[i].data) THEN [raw[i] EXCEPT !.data = ListV(<<raw[i].data>>)]
        ELSE raw[i]]

\* C5: in every query a container whose report is a single record is treated
\* as a one-element sequence: the answer equals the answer to the same
\* mapping with that record reported inside a one-element list.
C5_SingleRecordIsWrapped ==
    FetchReturned => result = ResultOn(op, connected, WrapSingles(fetched.raw))

-----------------------------------------------------------------------------
(* C6 *)

IsOtherShape(data) == ~IsList(data) /\ ~IsDict(data)

\* C6: a container whose report is neither a list nor a single record adds
\* no record and raises no error: the outcome of the query equals its outcome
\* on the same mapping with that container removed.
C6_OtherShapeIsIgnored ==
    FetchReturned =>
        \A i \in 1..Len(fetched.raw) :
            IsOtherShape(fetched.raw[i].data)
                => result = ResultOn(op, connected, RemoveAt(fetched.raw, i))

\* GetWorkers succeeds with a non-zero count on a mapping whose first
\* container reported null
C6_Witness ==
    /\ op = "workers"
    /\ fetched.ok
    /\ Len(fetched.raw) = 2
    /\ fetched.raw[1].data = Null
    /\ Succeeded(result)
    /\ result.body.summary.count > 0

-----------------------------------------------------------------------------
(* C7 *)

\* The decimal strings of 0..99, by formatting
IsDecimal(s) == \E n \in 0..99 : NatDigits(n) = s
DecimalValue(s) == CHOOSE n \in 0..99 : NatDigits(n) = s

\* A container identifier read as an integer, 0 when it is not numeric
CidAsInt(cid) == IF IsDecimal(cid.s) THEN DecimalValue(cid.s) ELSE 0

\* node_id is present on the entry and is no integer, nor a decimal string
HasUnparseableNodeId(entry) ==
    /\ "node_id" \in DOMAIN entry.d
    /\ entry.d["node_id"].t # "int"
    /\ ~(entry.d["node_id"].t = "str" /\ IsDecimal(entry.d["node_id"].s))

\* C7: a node record (here: one reported inside a list) whose node_id is
\* present but not parseable as an integer is identified by its container
\* identifier, and GetTopology still succeeds with a NodeStat for it: the
\* query never fails on such a record.
C7_UnparseableNodeIdFallsBack ==
    (op = "topology" /\ fetched.ok) =>
        \A r \in ListedRecords(fetched.raw) :
            HasUnparseableNodeId(r.entry) =>
                /\ Succeeded(result)
                /\ \E i \in 1..Len(result.body.nodes) :
                    result.body.nodes[i].node_id = CidAsInt(r.cid)

-----------------------------------------------------------------------------
(* C8 *)

HasMalformedElement(raw) ==
    \E i \in 1..Len(raw) :
        /\ IsList(raw[i].data)
        /\ \E k \in 1..Len(raw[i].data.xs) : ~IsDict(raw[i].data.xs[k])

\* The mapping raw without the list elements that are no records
DropMalformed(raw) ==
    [i \in 1..Len(raw) |->
        IF IsList(raw[i].data)
        THEN [raw[i] EXCEPT !.data = ListV(SelectSeq(raw[i].data.xs, IsDict))]
        ELSE raw[i]]

\* C8: an element that is no record inside a container's list never fails a
\* query: where GetWorkers, GetSystemOverview or GetTopology succeeds on the
\* mapping without such elements, it succeeds on the mapping with them.
C8_MalformedElementIsAbsorbed ==
    (FetchReturned /\ HasMalformedElement(fetched.raw)
        /\ Succeeded(ResultOn(op, connected, DropMalformed(fetched.raw))))
            => Succeeded(result)

-----------------------------------------------------------------------------
(* C9 *)

\* C9: a node record without node_id is kept under the identifier of the
\* container that reported it, and the node_id exposed for it is that
\* identifier read as an integer, 0 when the identifier is not numeric.
C9_MissingNodeIdUsesContainerId ==
    (op = "topology" /\ fetched.ok /\ Succeeded(result)) =>
        /\ \A j \in 1..Len(fetched.raw) :
            IsList(fetched.raw[j].data) =>
                \A k \in 1..Len(fetched.raw[j].data.xs) :
                    LET e == fetched.raw[j].data.xs[k] IN
                    (IsDict(e) /\ "node_id" \notin DOMAIN e.d) =>
                        \E i \in 1..Len(nodes) : nodes[i].key = fetched.raw[j].cid.s
        /\ \A i \in 1..Len(nodes) :
            "node_id" \notin DOMAIN nodes[i].entry.d =>
                \E j \in 1..Len(fetched.raw) :
                    /\ nodes[i].key = fetched.raw[j].cid.s
                    /\ result.body.nodes[i].node_id = CidAsInt(fetched.raw[j].cid)

\* Records without node_id reported by container "2" and by container "c"
\* come out as node 2 and node 0
C9_Witness ==
    /\ op = "topology"
    /\ Succeeded(result)
    /\ Len(nodes) = 2
    /\ \A i \in 1..2 : "node_id" \notin DOMAIN nodes[i].entry.d
    /\ nodes[1].key = <<"2">> /\ result.body.nodes[1].node_id = 2
    /\ nodes[2].key = <<"c">> /\ result.body.nodes[2].node_id = 0

-----------------------------------------------------------------------------
(* C10 *)

DerivedIdentities(raw) == {NodeKey(r.cid, r.entry) : r \in NormalizedRecords(raw)}

\* C10: every identity derived from some record of the input appears in the
\* GetTopology result: the query answers, and the number of NodeStats equals
\* the number of distinct derived identities.
C10_EveryIdentityIsReported ==
    (op = "topology" /\ fetched.ok) =>
        /\ Succeeded(result)
        /\ Len(result.body.nodes) = Cardinality(DerivedIdentities(fetched.raw))

-----------------------------------------------------------------------------
(* C11 *)

\* C11: every query (GetSystemOverview, GetTopology, GetWorkers, GetPools)
\* ends by returning a result: a success (200), SourceUnavailable (503), or,
\* for GetPools only, NotFound (404); none ends with an exception.
C11_OutcomeIsOneOfThree ==
    op \in {"system", "topology", "workers", "pools"} =>
        /\ result.kind = "return"
        /\ \/ result.status = 200
           \/ result.status = 503 /\ "error" \in DOMAIN result.body
           \/ result.status = 404 /\ op = "pools"

-----------------------------------------------------------------------------
(* C12 *)

FetchOperations == {"get_worker_stats", "get_system_stats_all"}
FetchCalls(cs) == Cardinality({i \in 1..Len(cs) : cs[i] \in FetchOperations})

\* C12: every execution of GetSystemOverview, GetTopology or GetWorkers has
\* called the fetch operation exactly once when it ends, whether the fetch
\* returned or failed; after a failed fetch the query answers 503.
C12_OneFetchPerQuery ==
    op \in {"system", "topology", "workers"} =>
        /\ FetchCalls(calls) = 1
        /\ ~fetched.ok => (result.kind = "return" /\ result.status = 503)

\* GetSystemOverview on a client that was not connected, whose fetch failed
C12_Witness ==
    /\ op = "system"
    /\ connected = FALSE
    /\ ~fetched.ok
    /\ calls = <<"is_connected", "get_worker_stats">>
    /\ result.status = 503

-----------------------------------------------------------------------------
(* C13 *)

\* Some candidate path names a file
ConfigSourceFound(cands) ==
    \E i \in 1..Len(cands) : ~Falsy(cands[i].path) /\ cands[i].isfile

\* C13: GetPools answers 404 with an error exactly when no candidate names
\* a file; when one does, it answers 200 with a pools list.
C13_NotFoundIffNoConfigSource ==
    op = "pools" =>
        IF ConfigSourceFound(candidates)
        THEN Succeeded(result) /\ "pools" \in DOMAIN result.body
        ELSE result.kind = "return" /\ result.status = 404
             /\ "error" \in DOMAIN result.body

-----------------------------------------------------------------------------
(* C17 *)

NumericFields ==
    {"cpu_usage_pct", "ram_usage_pct", "gpu_count", "gpu_usage_pct", "hbm_usage_pct"}

\* C17: in a GetTopology result every record that survived reconciliation
\* has its NodeStat, and a field among ip_address, cpu_usage_pct,
\* ram_usage_pct, gpu_count, gpu_usage_pct, hbm_usage_pct that the record
\* lacks is 0 in the NodeStat, the empty string for ip_address.
C17_AbsentFieldIsZero ==
    (op = "topology" /\ fetched.ok /\ Succeeded(result)) =>
        /\ Len(result.body.nodes) = Len(nodes)
        /\ \A i \in 1..Len(nodes) :
            /\ "ip_address" \notin DOMAIN nodes[i].entry.d
                => result.body.nodes[i].ip_address = StrV(<<>>)
            /\ \A fld \in NumericFields \ DOMAIN nodes[i].entry.d :
                result.body.nodes[i][fld] = IntV(0)

\* A record holding only node_id and event_id is reported with zeros
C17_Witness ==
    /\ op = "topology"
    /\ Succeeded(result)
    /\ \E i \in 1..Len(nodes) :
        /\ DOMAIN nodes[i].entry.d = {"node_id", "event_id", "cpu_usage_pct"}
        /\ result.body.nodes[i].ip_address = StrV(<<>>)
        /\ result.body.nodes[i].gpu_count = IntV(0)
        /\ result.body.nodes[i].cpu_usage_pct # IntV(0)

-----------------------------------------------------------------------------
(* C18 *)

\* C18: when no record reported for an identity has a hostname, the NodeStat
\* returned for that identity has the local default hostname, which is not
\* empty.
C18_HostnameFallsBackToLocal ==
    (op = "topology" /\ fetched.ok /\ Succeeded(result)) =>
        \A i \in 1..Len(nodes) :
            (\A r \in NormalizedRecords(fetched.raw) :
                NodeKey(r.cid, r.entry) = nodes[i].key
                    => "hostname" \notin DOMAIN r.entry.d)
                => /\ result.body.nodes[i].hostname = LocalHostname
                   /\ result.body.nodes[i].hostname # StrV(<<>>)

\* Two records of node 1, neither with a hostname, come out as one NodeStat
\* with the local hostname
C18_Witness ==
    /\ op = "topology"
    /\ Succeeded(result)
    /\ Cardinality({r \in ListedRecords(fetched.raw) : NodeKey(r.cid, r.entry) = <<"1">>}) = 2
    /\ \E i \in 1..Len(nodes) :
        nodes[i].key = <<"1">> /\ result.body.nodes[i].hostname = LocalHostname

-----------------------------------------------------------------------------
(* C19 *)

\* The records of one container's report: a list's elements, a single record
RecordsOfReport(data) ==
    IF IsList(data) THEN data.xs ELSE IF IsDict(data) THEN <<data>> ELSE <<>>

\* Number of records of the first n containers of raw
RECURSIVE RecordsBefore(_, _)
RecordsBefore(raw, n) ==
    IF n = 0 THEN 0 ELSE RecordsBefore(raw, n - 1) + Len(RecordsOfReport(raw[n].data))

\* C19: the list GetWorkers returns holds, container after container, every
\* record of every container at its place; its length and the count are
\* the total number of records, and the totals are sums over all of them,
\* identical records included.
C19_NoRecordMergedOrDropped ==
    (op = "workers" /\ fetched.ok /\ Succeeded(result)) =>
        LET raw == fetched.raw
            ws == result.body.workers
        IN  /\ Len(ws) = RecordsBefore(raw, Len(raw))
            /\ result.body.summary.count = RecordsBefore(raw, Len(raw))
            /\ \A j \in 1..Len(raw) :
                \A k \in 1..Len(RecordsOfReport(raw[j].data)) :
                    ws[RecordsBefore(raw, j - 1) + k] = RecordsOfReport(raw[j].data)[k]
            /\ result.body.summary.queued = TotalOf(ws, "queued")
            /\ result.body.summary.blocked = TotalOf(ws, "blocked")
            /\ result.body.summary.processed = TotalOf(ws, "processed")

\* The same record reported twice in one list stays twice and counts twice
C19_Witness ==
    /\ op = "workers"
    /\ Succeeded(result)
    /\ Len(result.body.workers) = 2
    /\ result.body.workers[1] = result.body.workers[2]
    /\ result.body.summary.count = 2
    /\ result.body.summary.queued = 4

-----------------------------------------------------------------------------
(* C20 *)

PoolFields == {"mod_name", "pool_name", "pool_id", "pool_query"}

\* The entries of the compose section of cfg; none when it is absent or null
ComposeEntries(cfg) ==
    IF "compose" \in DOMAIN cfg.d /\ IsList(cfg.d["compose"]) THEN cfg.d["compose"].xs
    ELSE <<>>

\* C20: when the config loaded is a mapping, GetPools answers 200 with one
\* descriptor per compose entry, in order, each with exactly the fields
\* mod_name, pool_name, pool_id, pool_query, holding the entry's value or
\* the empty string when the entry lacks the field; without a compose
\* section, or with a null one, the pools list is empty.
C20_OneDescriptorPerComposeEntry ==
    LET l == LoadConfig(candidates) IN
    (op = "pools" /\ l.ok /\ IsDict(l.v)) =>
        /\ Succeeded(result)
        /\ Len(result.body.pools) = Len(ComposeEntries(l.v))
        /\ \A i \in 1..Len(ComposeEntries(l.v)) :
            /\ DOMAIN result.body.pools[i] = PoolFields
            /\ \A fld \in PoolFields :
                result.body.pools[i][fld] =
                    IF fld \in DOMAIN ComposeEntries(l.v)[i].d
                    THEN ComposeEntries(l.v)[i].d[fld]
                    ELSE StrV(<<>>)

\* A compose section of a partial entry followed by a full one
C20_Witness ==
    /\ op = "pools"
    /\ Succeeded(result)
    /\ Len(result.body.pools) = 2
    /\ result.body.pools[1].mod_name = StrV(<<"b">>)
    /\ result.body.pools[1].pool_id = StrV(<<>>)
    /\ result.body.pools[2].pool_id = StrV(<<"1">>)

\* A config without compose, and one whose compose is null, give an empty list
C20_WitnessNoCompose ==
    /\ op = "pools"
    /\ LoadConfig(candidates).ok
    /\ IsDict(LoadConfig(candidates).v)
    /\ ComposeEntries(LoadConfig(candidates).v) = <<>>
    /\ result = Respond(200, [pools |-> <<>>])

-----------------------------------------------------------------------------
(* C14, C15, C16: specification ConcSpec *)

Done(s) == reqs[s].pc = "done"

\* What the query of frame fr answers when run alone on what it read
AloneResult(fr, c) ==
    IF fr.op = "pools" THEN GetPoolsResult(candidates)
    ELSE ResultOn(fr.op, c, fr.fetched.raw)

\* C14: two executions of the same query whose fetches returned the same
\* snapshot (for GetPools: under the same config) answer the same result,
\* lists in the same order, however many executions ran in between.
C14_RepeatedQueryAnswersTheSame ==
    \A s, t \in Slots :
        (/\ Done(s) /\ Done(t)
         /\ reqs[s].op = reqs[t].op
         /\ reqs[s].fetched.ok /\ reqs[t].fetched = reqs[s].fetched)
            => reqs[s].result = reqs[t].result

\* GetSystemOverview answered twice on the same two-container snapshot, by
\* a client found connected and by one found not connected
C14_Witness ==
    /\ Done(1) /\ Done(2)
    /\ reqs[1].op = "system" /\ reqs[2].op = "system"
    /\ reqs[1].connected /\ ~reqs[2].connected
    /\ reqs[1].fetched.ok /\ reqs[2].fetched = reqs[1].fetched
    /\ Len(reqs[1].fetched.raw) = 2
    /\ Succeeded(reqs[1].result)
    /\ reqs[1].result.body.workers = 2
    /\ reqs[2].result = reqs[1].result

\* C15: whatever the interleaving, a finished query's result is the result
\* of running it alone on what its own fetch returned (its 503 when the
\* fetch failed), and no step of a query changes the snapshot or the config.
C15_QueriesShareNoState ==
    [][ /\ \A s \in Slots :
            reqs'[s].pc = "done" =>
                IF reqs'[s].op # "pools" /\ ~reqs'[s].fetched.ok
                THEN reqs'[s].result.kind = "return" /\ reqs'[s].result.status = 503
                ELSE reqs'[s].result = AloneResult(reqs'[s], reqs'[s].connected)
        /\ reqs' # reqs => (stats' = stats /\ candidates' = candidates) ]_vars

\* Two queries in flight on different snapshots, neither the current one;
\* the second slot has finished on its own
C15_Witness ==
    /\ Done(2)
    /\ reqs[1].pc = "fetched"
    /\ reqs[1].op = "workers" /\ reqs[2].op = "workers"
    /\ reqs[1].fetched.ok /\ reqs[2].fetched.ok
    /\ reqs[1].fetched.raw # reqs[2].fetched.raw
    /\ reqs[1].fetched.raw # stats /\ reqs[2].fetched.raw # stats
    /\ Succeeded(reqs[2].result)
    /\ reqs[2].result # HandlerResult(reqs[1])

\* C16: a query begun after a query has ended on a failed fetch, and whose
\* own fetch returns, answers what it answers to that snapshot whatever the
\* connection state the failures left behind.
C16_FailureAffectsOneCallOnly ==
    \A s \in Slots :
        (Done(s) /\ reqs[s].after /\ reqs[s].op # "pools" /\ reqs[s].fetched.ok) =>
            \A c \in BOOLEAN : reqs[s].result = ResultOn(reqs[s].op, c, reqs[s].fetched.raw)

\* After a failed query, GetSystemOverview on a client found not connected
\* succeeds
C16_Witness ==
    /\ failures
    /\ \E s \in Slots :
        /\ Done(s) /\ reqs[s].after
        /\ reqs[s].op = "system" /\ ~reqs[s].connected
        /\ Succeeded(reqs[s].result)
        /\ reqs[s].result.body.workers > 0

-----------------------------------------------------------------------------
(* C21 *)

\* The candidate is set and names an existing file
Usable(cand) == cand.path # Null /\ cand.path # StrV(<<>>) /\ cand.isfile

ConfigNotFound == GetConfigResult(NoCandidates)

\* C21: the config query answers from the first candidate, in the order
\* CHI_SERVER_CONF, WRP_RUNTIME_CONF, home default, that is set and names an
\* existing file: every earlier candidate is unset, empty or names no file,
\* the answer is what loading that file gives, and the 404 of `nothing
\* usable` is answered when no candidate is usable.
C21_FirstUsableCandidateIsActive ==
    op = "config" =>
        IF \A i \in 1..3 : ~Usable(candidates[i])
        THEN result = ConfigNotFound /\ result.status = 404
        ELSE \E i \in 1..3 :
            /\ Usable(candidates[i])
            /\ \A j \in 1..(i - 1) : ~Usable(candidates[j])
            /\ LET l == candidates[i].load IN
               IF ~l.ok THEN result = Raise(l.exc)
               ELSE IF l.v = Null THEN result.status = 404
               ELSE result = Respond(200, [config |-> l.v])

\* CHI_SERVER_CONF is unset, WRP_RUNTIME_CONF and the home default both
\* name files with different mappings: the answer is the second candidate's
C21_Witness ==
    /\ op = "config"
    /\ candidates[1].path = Null
    /\ Usable(candidates[2]) /\ Usable(candidates[3])
    /\ candidates[2].load.ok /\ candidates[3].load.ok
    /\ IsDict(candidates[2].load.v) /\ IsDict(candidates[3].load.v)
    /\ candidates[2].load.v # candidates[3].load.v
    /\ result = Respond(200, [config |-> candidates[2].load.v])

-----------------------------------------------------------------------------
(* C30 *)

\* The first usable candidate is an empty file
FirstUsableIsEmpty(cands) ==
    \E i \in 1..Len(cands) :
        /\ Usable(cands[i])
        /\ \A j \in 1..(i - 1) : ~Usable(cands[j])
        /\ cands[i].load = [ok |-> TRUE, v |-> Null]

\* C30: when the first usable candidate is a file that parses to null,
\* GetPools and the config query answer exactly what they answer when no
\* candidate is usable, a 404, even when a later candidate holds a config.
C30_EmptyFileIsNotFound ==
    (op \in {"pools", "config"} /\ FirstUsableIsEmpty(candidates)) =>
        /\ result.kind = "return"
        /\ result.status = 404
        /\ result = (IF op = "pools" THEN GetPoolsResult(NoCandidates) ELSE ConfigNotFound)

\* CHI_SERVER_CONF names an empty file, the home default a file with a
\* compose list: GetPools answers 404
C30_Witness ==
    /\ op = "pools"
    /\ Usable(candidates[1])
    /\ candidates[1].load = [ok |-> TRUE, v |-> Null]
    /\ Usable(candidates[3])
    /\ candidates[3].load.ok
    /\ IsDict(candidates[3].load.v)
    /\ ComposeEntries(candidates[3].load.v) # <<>>
    /\ result = PoolsNotFound

-----------------------------------------------------------------------------
(* C23 *)

NodeStatFields ==
    {"node_id", "hostname", "ip_address", "cpu_usage_pct", "ram_usage_pct",
     "gpu_count", "gpu_usage_pct", "hbm_usage_pct"}

\* C23: every NodeStat of a GetTopology result has exactly the fields
\* node_id, hostname, ip_address, cpu_usage_pct, ram_usage_pct, gpu_count,
\* gpu_usage_pct, hbm_usage_pct; neither event_id nor any other field of the
\* record is among them.
C23_NodeStatHasEightFields ==
    (op = "topology" /\ Succeeded(result)) =>
        \A i \in 1..Len(result.body.nodes) :
            DOMAIN result.body.nodes[i] = NodeStatFields

\* A surviving record that carries an event_id is reported without it
C23_Witness ==
    /\ op = "topology"
    /\ Succeeded(result)
    /\ \E i \in 1..Len(nodes) :
        /\ "event_id" \in DOMAIN nodes[i].entry.d
        /\ "event_id" \notin DOMAIN result.body.nodes[i]
        /\ Cardinality(DOMAIN result.body.nodes[i]) = 8

-----------------------------------------------------------------------------
(* C26 *)

\* The NodeStat a single record reported by container cid gives
StatOfRecord(cid, entry) ==
    [node_id |-> IF "node_id" \in DOMAIN entry.d THEN entry.d["node_id"].n ELSE CidAsInt(cid),
     hostname |-> IF "hostname" \in DOMAIN entry.d /\ entry.d["hostname"] # StrV(<<>>)
                  THEN entry.d["hostname"] ELSE LocalHostname,
     ip_address |-> IF "ip_address" \in DOMAIN entry.d THEN entry.d["ip_address"]
                    ELSE StrV(<<>>),
     cpu_usage_pct |-> IF "cpu_usage_pct" \in DOMAIN entry.d THEN entry.d["cpu_usage_pct"]
                       ELSE IntV(0),
     ram_usage_pct |-> IF "ram_usage_pct" \in DOMAIN entry.d THEN entry.d["ram_usage_pct"]
                       ELSE IntV(0),
     gpu_count |-> IF "gpu_count" \in DOMAIN entry.d THEN entry.d["gpu_count"] ELSE IntV(0),
     gpu_usage_pct |-> IF "gpu_usage_pct" \in DOMAIN entry.d THEN entry.d["gpu_usage_pct"]
                       ELSE IntV(0),
     hbm_usage_pct |-> IF "hbm_usage_pct" \in DOMAIN entry.d THEN entry.d["hbm_usage_pct"]
                       ELSE IntV(0)]

\* C26: every NodeStat of a GetTopology result is the NodeStat of one
\* single record of the input, the survivor of its identity: each field is
\* that record's value, or the default where that record lacks the field.
C26_NodeStatComesFromOneRecord ==
    (op = "topology" /\ fetched.ok /\ Succeeded(result)) =>
        \A i \in 1..Len(result.body.nodes) :
            \E r \in ListedRecords(fetched.raw) :
                /\ r.entry = nodes[i].entry
                /\ NodeKey(r.cid, r.entry) = nodes[i].key
                /\ result.body.nodes[i] = StatOfRecord(r.cid, r.entry)

\* A record with cpu_usage_pct 30 and a hostname is superseded by one with
\* event_id 7 and cpu_usage_pct 20: nothing of the first is in the NodeStat
C26_Witness ==
    /\ op = "topology"
    /\ Succeeded(result)
    /\ Len(nodes) = 1
    /\ \E r \in ListedRecords(fetched.raw) :
        "hostname" \in DOMAIN r.entry.d /\ r.entry # nodes[1].entry
    /\ EventIdOf(nodes[1].entry) = 7
    /\ result.body.nodes[1].cpu_usage_pct = IntV(20)
    /\ result.body.nodes[1].hostname = LocalHostname

-----------------------------------------------------------------------------
(* C27 *)

\* C27: the hostname of a NodeStat is that of the input record that
\* survived for its identity; when the survivor has none, or an empty one,
\* it is the local default hostname, whatever hostname the superseded
\* records of the identity carried.
C27_HostnameIsTheSurvivors ==
    (op = "topology" /\ fetched.ok /\ Succeeded(result)) =>
        \A i \in 1..Len(nodes) :
            \E r \in ListedRecords(fetched.raw) :
                /\ r.entry = nodes[i].entry
                /\ NodeKey(r.cid, r.entry) = nodes[i].key
                /\ result.body.nodes[i].hostname =
                    IF "hostname" \in DOMAIN r.entry.d /\ r.entry.d["hostname"] # StrV(<<>>)
                    THEN r.entry.d["hostname"]
                    ELSE LocalHostname

\* A record with hostname "n" is superseded by the event_id 5 record of the
\* same identity, which has no hostname: the local hostname is reported
C27_Witness ==
    /\ op = "topology"
    /\ Succeeded(result)
    /\ \E i \in 1..Len(nodes) :
        /\ EventIdOf(nodes[i].entry) = 5
        /\ "hostname" \notin DOMAIN nodes[i].entry.d
        /\ \E r \in ListedRecords(fetched.raw) :
            /\ NodeKey(r.cid, r.entry) = nodes[i].key
            /\ "hostname" \in DOMAIN r.entry.d
        /\ result.body.nodes[i].hostname = LocalHostname

-----------------------------------------------------------------------------
(* C29: specification ConcSpec *)

\* C29: a GetSystemOverview and a GetWorkers that succeeded on the same
\* snapshot agree: the overview's workers, queued, blocked, processed are
\* the summary's count, queued, blocked, processed; and the overview says
\* connected = true whatever the connection state read before the call.
C29_OverviewAgreesWithWorkers ==
    \A s, t \in Slots :
        (/\ Done(s) /\ reqs[s].op = "system" /\ Succeeded(reqs[s].result)
         /\ Done(t) /\ reqs[t].op = "workers" /\ Succeeded(reqs[t].result)
         /\ reqs[s].fetched = reqs[t].fetched)
            => /\ reqs[s].result.body.connected = TRUE
               /\ reqs[s].result.body.workers = reqs[t].result.body.summary.count
               /\ reqs[s].result.body.queued = reqs[t].result.body.summary.queued
               /\ reqs[s].result.body.blocked = reqs[t].result.body.summary.blocked
               /\ reqs[s].result.body.processed = reqs[t].result.body.summary.processed

\* Both queries answered on a snapshot of two containers, each holding the
\* record {blocked 1}, the overview by a client found not connected
C29_Witness ==
    /\ Done(1) /\ reqs[1].op = "system" /\ Succeeded(reqs[1].result)
    /\ Done(2) /\ reqs[2].op = "workers" /\ Succeeded(reqs[2].result)
    /\ reqs[1].fetched = reqs[2].fetched
    /\ ~reqs[1].connected
    /\ reqs[1].result.body.connected = TRUE
    /\ reqs[1].result.body.blocked = 2
    /\ reqs[2].result.body.summary.count = 2

-----------------------------------------------------------------------------
(* C22, C24, C25, C28: specification ReconcileSpec *)

\* The records of the fetched mapping in the order the handler meets them
MetRecords == IF fetched.ok THEN FlattenEntries(fetched.raw) ELSE <<>>

KeyOfMet(k) == NodeKey(MetRecords[k].cid, MetRecords[k].entry)
EventIdOfMet(k) == EventIdOf(MetRecords[k].entry)

\* The positions of the records that derive the identity key
MetWithKey(key) == {k \in 1..Len(MetRecords) : KeyOfMet(k) = key}

\* The position of the record of that identity met first among those with
\* the greatest event_id
FirstOfGreatest(key) ==
    CHOOSE k \in MetWithKey(key) :
        \A m \in MetWithKey(key) :
            /\ EventIdOfMet(m) <= EventIdOfMet(k)
            /\ m < k => EventIdOfMet(m) < EventIdOfMet(k)

\* C22: the record that survives for an identity is, among its records with
\* the greatest event_id (0 when missing), the one met first in container
\* order and then in list order: a strictly greater event_id replaces, an
\* equal one does not.
C22_FirstSeenSurvivesTies ==
    (op = "topology" /\ fetched.ok /\ Succeeded(result)) =>
        \A i \in 1..Len(nodes) :
            LET k == FirstOfGreatest(nodes[i].key) IN
            /\ MetWithKey(nodes[i].key) # {}
            /\ nodes[i].entry = MetRecords[k].entry
            /\ result.body.nodes[i] = StatOfRecord(MetRecords[k].cid, MetRecords[k].entry)

\* Two different records of one identity, neither with an event_id: the one
\* met first is reported
C22_Witness ==
    /\ op = "topology"
    /\ Succeeded(result)
    /\ Len(MetRecords) = 2
    /\ KeyOfMet(1) = KeyOfMet(2)
    /\ EventIdOfMet(1) = EventIdOfMet(2)
    /\ MetRecords[1].entry # MetRecords[2].entry
    /\ Len(nodes) = 1
    /\ nodes[1].entry = MetRecords[1].entry
    /\ result.body.nodes[1].cpu_usage_pct = MetRecords[1].entry.d["cpu_usage_pct"]

\* C24 as stated: no two NodeStats of one GetTopology result carry the same
\* exposed node_id.
C24_ExposedNodeIdsAreDistinct ==
    (op = "topology" /\ Succeeded(result)) =>
        \A i, j \in 1..Len(result.body.nodes) :
            result.body.nodes[i].node_id = result.body.nodes[j].node_id => i = j

\* C24 amended: no two NodeStats of one GetTopology result come from the
\* same identity key; two NodeStats carry the same exposed node_id only when
\* their keys differ and one of them is not the decimal form of that number
\* (a container identifier that is not numeric is exposed as 0).
C24_IdentityKeysAreDistinct ==
    (op = "topology" /\ fetched.ok /\ Succeeded(result)) =>
        /\ Len(result.body.nodes) = Len(nodes)
        /\ \A i, j \in 1..Len(nodes) :
            i # j =>
                /\ nodes[i].key # nodes[j].key
                /\ result.body.nodes[i].node_id = result.body.nodes[j].node_id
                    => \/ nodes[i].key # NatDigits(result.body.nodes[i].node_id)
                       \/ nodes[j].key # NatDigits(result.body.nodes[j].node_id)

\* A record with node_id 0 and a record without node_id reported by
\* container "c" come out as two NodeStats with node_id 0
C24_Witness ==
    /\ op = "topology"
    /\ Succeeded(result)
    /\ Len(result.body.nodes) = 2
    /\ nodes[1].key # nodes[2].key
    /\ result.body.nodes[1].node_id = 0
    /\ result.body.nodes[2].node_id = 0

\* C25: a record with explicit node_id n and a record without node_id
\* reported by the container whose identifier is the decimal form of n have
\* the same key; one NodeStat is returned for it, with node_id n, built from
\* the record of that key with the greatest event_id.
C25_ExplicitAndContainerIdentityMeet ==
    (op = "topology" /\ fetched.ok /\ Succeeded(result)) =>
        \A a, b \in 1..Len(MetRecords) :
            LET ea == MetRecords[a].entry
                eb == MetRecords[b].entry
            IN  (/\ "node_id" \in DOMAIN ea.d
                 /\ "node_id" \notin DOMAIN eb.d
                 /\ MetRecords[b].cid.s = NatDigits(ea.d["node_id"].n))
                    => /\ KeyOfMet(a) = KeyOfMet(b)
                       /\ Cardinality({i \in 1..Len(nodes) : nodes[i].key = KeyOfMet(a)}) = 1
                       /\ \A i \in 1..Len(nodes) :
                            nodes[i].key = KeyOfMet(a) =>
                                /\ result.body.nodes[i].node_id = ea.d["node_id"].n
                                /\ EventIdOf(nodes[i].entry) >= EventIdOf(ea)
                                /\ EventIdOf(nodes[i].entry) >= EventIdOf(eb)
                                /\ nodes[i].entry = MetRecords[FirstOfGreatest(KeyOfMet(a))].entry

\* Container "1" reports a record without node_id, then a record with
\* node_id 1 and event_id 5 is met: one NodeStat, node 1, cpu_usage_pct 10
C25_Witness ==
    /\ op = "topology"
    /\ Succeeded(result)
    /\ Len(MetRecords) = 2
    /\ MetRecords[1].cid = StrV(<<"1">>)
    /\ "node_id" \notin DOMAIN MetRecords[1].entry.d
    /\ "node_id" \in DOMAIN MetRecords[2].entry.d
    /\ EventIdOfMet(2) = 5
    /\ Len(result.body.nodes) = 1
    /\ result.body.nodes[1].node_id = 1
    /\ result.body.nodes[1].cpu_usage_pct = IntV(10)

Perms(n) == {p \in [1..n -> 1..n] : \A i, j \in 1..n : p[i] = p[j] => i = j}

\* The orders in which the elements of xs can stand
Reordered(xs) == {[k \in 1..Len(xs) |-> xs[p[k]]] : p \in Perms(Len(xs))}

\* The mapping raw with the records of each list in every order
RECURSIVE ListsReordered(_)
ListsReordered(raw) ==
    IF raw = <<>> THEN {<<>>}
    ELSE LET h == Head(raw) IN
         { <<[cid |-> h.cid, data |-> d]>> \o rest :
             d \in (IF IsList(h.data) THEN {ListV(xs) : xs \in Reordered(h.data.xs)}
                    ELSE {h.data}),
             rest \in ListsReordered(Tail(raw)) }

\* Every permutation of raw: of its containers, and of the records in each
PermutedMappings(raw) == UNION {Reordered(r) : r \in ListsReordered(raw)}

NodeStatSet(r) == {r.body.nodes[i] : i \in 1..Len(r.body.nodes)}

\* No two records met derive the same identity with the same event_id
EventIdsAreDistinct ==
    \A a, b \in 1..Len(MetRecords) :
        (a # b /\ KeyOfMet(a) = KeyOfMet(b)) => EventIdOfMet(a) # EventIdOfMet(b)

\* C28: when the records of each identity carry pairwise distinct event_id
\* values, GetTopology answers every permutation of the mapping (containers
\* in another order, records of a list in another order) with the same set
\* of NodeStats.
C28_PermutationGivesSameNodeStats ==
    (op = "topology" /\ fetched.ok /\ Succeeded(result) /\ EventIdsAreDistinct) =>
        \A raw \in PermutedMappings(fetched.raw) :
            LET r == ResultOn("topology", FALSE, raw) IN
            Succeeded(r) /\ NodeStatSet(r) = NodeStatSet(result)

\* Two containers report node 1, the fresher record first: in this order the
\* second record is rejected, in the other order it replaces
C28_Witness ==
    /\ op = "topology"
    /\ Succeeded(result)
    /\ Len(fetched.raw) = 2
    /\ Len(MetRecords) = 2
    /\ KeyOfMet(1) = KeyOfMet(2)
    /\ EventIdOfMet(1) > EventIdOfMet(2)
    /\ Len(result.body.nodes) = 1
    /\ nodes[1].entry = MetRecords[1].entry

====
